---------------------------- MODULE Spec2Model ----------------------------
(***************************************************************************)
(* Workflow synchronization layer of the ScrapeCraft frontend:             *)
(*   - the transport manager (useWebSocketStore: connect / disconnect /    *)
(*     send, socket events, reconnect timers),                             *)
(*   - the message dispatcher (handleWebSocketMessage),                    *)
(*   - the workflow store (useWorkflowStore) and its request/response      *)
(*     calls,                                                              *)
(*   - the approval UI (WorkflowSidebar.handleApprovalRequest and          *)
(*     ApprovalManager).                                                   *)
(* The backend (phase state machine, approval coordinator) is not part of  *)
(* the frontend sources; it is modelled from the written specification.    *)
(***************************************************************************)
EXTENDS Integers, Sequences, FiniteSets, TLC

(***************************************************************************)
(* Bounds of the model.                                                    *)
(***************************************************************************)
\* sockets that are not yet closed, at any one time
MaxSockets == 2
\* reconnect timers pending at any one time
MaxTimers == 2
\* connect calls of the caller in the retry scenario
MaxCalls == 2
\* highest snapshot version the backend reaches
MaxVersion == 3
\* approvals the agent requests
MaxApprovals == 1
\* request/response calls in flight at any one time
MaxInflight == 1
\* frames in flight towards the client
MaxInbox == 1
\* frames in flight towards the backend
MaxOutbox == 2
\* messages a caller passes to send
MaxMessages == 1
\* entries of the held url list
MaxURLs == 2
\* state_update frames the backend emits
MaxUpdates == 2
\* updatePipeline calls in flight at any one time
MaxPuts == 2

(***************************************************************************)
(* Program constants.                                                      *)
(***************************************************************************)
\* websocket.onclose: if (reconnectAttempts < 5)
MaxReconnectAttempts == 5
\* websocket.onclose: 1000 * Math.pow(2, reconnectAttempts)
BaseDelay == 1000
\* websocket.onclose: Math.min(..., 10000)
MaxDelay == 10000

Pipelines == {"P1", "P2"}

\* useWebSocket has not run yet
NoPipeline == "none"

\* the null socket reference
NoSocket == 0

VARIABLES
  \* ---- useWebSocketStore ----
  ws,                 \* the socket the store holds (NoSocket: null)
  connectionStatus,   \* "connecting" | "connected" | "disconnected"
  reconnectAttempts,
  \* ---- browser environment of the transport ----
  sockets,            \* socket id -> [state, pipelineId], closed sockets are dropped
  timers,             \* pending setTimeout callbacks, in scheduling order
  \* ---- observation of the transport (not read by the program) ----
  lastDelay,          \* delay of the most recently scheduled reconnect timer
  callsMade,          \* connect calls the caller has made (retry scenario)
  \* ---- useWorkflowStore ----
  currentWorkflow,    \* the held snapshot (Null: null)
  workflowHistory,
  pendingApprovals,
  isProcessing,
  error,
  \* ---- ApprovalManager / ApprovalDialog ----
  currentApproval,    \* the approval the dialog shows (Null: no dialog)
  showReason,         \* ApprovalDialog: the reason field is shown
  \* ---- network ----
  inbox,              \* frames sent by the backend, not yet received
  outbox,             \* frames sent by the client, not yet handled
  calls,              \* request/response calls in flight
  \* ---- backend ----
  server,             \* the canonical snapshot
  elapsed,            \* approval ids whose expires_at has passed
  \* ---- observation of the approvals (not read by the program) ----
  firstSubmit,        \* approval id -> the first resolution the client submitted
  firstHandled,       \* approval id -> the first resolution the backend handled
  restApplied,        \* approval id -> outcomes whose approveAction response was applied
  \* ---- WorkflowSidebar ----
  workflowState,      \* the sidebar's own copy of the workflow (Null: null)
  lastEffect,         \* the socket reference the state_request effect last ran for
  \* ---- observation of the dispatcher (not read by the program) ----
  parseFailed,        \* the last message event found a frame that does not parse
  \* ---- observation of send (not read by the program) ----
  offered,            \* message -> connectionStatus when it was passed to send
  \* ---- WorkflowSidebar, render ----
  phaseStatus,        \* phase id -> the status the last render derived for it
  \* ---- usePipelineStore and its updatePipeline calls ----
  pipelineStore,      \* [pipelines, currentPipeline]
  puts,               \* updatePipeline calls in flight
  stateSeq,           \* backend: state_update frames emitted so far
  \* ---- observation of the pipeline store (not read by the program) ----
  applied,            \* arrival numbers of the state_update frames, as applied
  \* ---- useWebSocket (the hook mounted by App) ----
  requested,          \* the pipelineId the hook's effect last ran for
  \* ---- observation of ApprovalManager (not read by the program) ----
  approvalLog         \* [received, answered]: ids the manager was handed / the user answered

transportVars == <<ws, connectionStatus, reconnectAttempts, sockets, timers,
                   lastDelay, callsMade, requested>>

storeVars == <<currentWorkflow, workflowHistory, pendingApprovals, isProcessing, error>>

sidebarVars == <<lastEffect, offered, phaseStatus>>

pipelineVars == <<pipelineStore, puts, stateSeq, applied>>

syncVars == <<currentWorkflow, workflowHistory, pendingApprovals, isProcessing, error,
              currentApproval, showReason, inbox, outbox, calls, server,
              firstSubmit, firstHandled, restApplied, sidebarVars, elapsed,
              workflowState, parseFailed, pipelineVars, approvalLog>>

\* what the actions of the workflow store and of the approval UI leave alone
quietVars == <<transportVars, sidebarVars, elapsed, workflowState, parseFailed,
               pipelineVars>>

otherVars == <<quietVars, approvalLog>>

vars == <<ws, connectionStatus, reconnectAttempts, sockets, timers,
          lastDelay, callsMade,
          currentWorkflow, workflowHistory, pendingApprovals, isProcessing, error,
          currentApproval, showReason, inbox, outbox, calls, server,
          firstSubmit, firstHandled, restApplied, lastEffect, offered, elapsed,
          workflowState, parseFailed, phaseStatus, pipelineStore, puts, stateSeq,
          applied, requested, approvalLog>>

(***************************************************************************)
(* Helpers                                                                 *)
(***************************************************************************)
Min(a, b) == IF a <= b THEN a ELSE b

RECURSIVE Pow2(_)
Pow2(n) == IF n = 0 THEN 1 ELSE 2 * Pow2(n - 1)

RemoveAt(seq, i) == [j \in 1..(Len(seq) - 1) |-> IF j < i THEN seq[j] ELSE seq[j + 1]]

\* The store and the part of the browser it acts on, as one value.
Transport == [ws |-> ws, connectionStatus |-> connectionStatus,
              reconnectAttempts |-> reconnectAttempts,
              sockets |-> sockets, timers |-> timers]

SetTransport(T) ==
  /\ ws' = T.ws
  /\ connectionStatus' = T.connectionStatus
  /\ reconnectAttempts' = T.reconnectAttempts
  /\ sockets' = T.sockets
  /\ timers' = T.timers

\* A socket is live while it is connecting or open (readyState 0 or 1).
LiveSockets(T) == {s \in DOMAIN T.sockets : T.sockets[s].state \in {"connecting", "open"}}

\* new WebSocket(...): the smallest identity no socket and no reference uses.
FreshSocket(T) ==
  LET Used == DOMAIN T.sockets \cup {T.ws, lastEffect.ws}
  IN CHOOSE s \in 1..(Cardinality(DOMAIN T.sockets) + 3) :
       /\ s \notin Used
       /\ \A t \in 1..(Cardinality(DOMAIN T.sockets) + 3) : t \notin Used => s <= t

\* WebSocket.close(): a connecting or open socket starts closing and will
\* deliver its close event later; on a closing or closed socket it does nothing.
SocketClose(T, s) ==
  IF s \in DOMAIN T.sockets /\ T.sockets[s].state \in {"connecting", "open"}
  THEN [T EXCEPT !.sockets[s].state = "closing"]
  ELSE T

\* (mutant) the delay without the ceiling
ReconnectDelayUncapped(attempts) == BaseDelay * Pow2(attempts)

\* The reconnect delay computed in websocket.onclose.
ReconnectDelay(attempts) == Min(BaseDelay * Pow2(attempts), MaxDelay)

(***************************************************************************)
(* useWebSocketStore                                                       *)
(***************************************************************************)
\* disconnect()
disconnect(T) ==
  IF T.ws # NoSocket
  THEN [SocketClose(T, T.ws) EXCEPT !.ws = NoSocket,
                                    !.connectionStatus = "disconnected"]
  ELSE T

\* connect(pipelineId), up to the installation of the handlers
connect(T, pipelineId) ==
  LET T1 == IF T.ws # NoSocket THEN disconnect(T) ELSE T
      T2 == [T1 EXCEPT !.connectionStatus = "connecting"]
      s  == FreshSocket(T2)
  IN [T2 EXCEPT !.sockets = [x \in DOMAIN T2.sockets \cup {s} |->
                               IF x = s
                               THEN [state |-> "connecting", pipelineId |-> pipelineId]
                               ELSE T2.sockets[x]]]

\* (mutant) onopen that keeps the attempt counter
onopenKeepsAttempts(T, s) ==
  [T EXCEPT !.ws = s,
            !.connectionStatus = "connected",
            !.sockets[s].state = "open"]

\* websocket.onopen of socket s
onopen(T, s) ==
  [T EXCEPT !.ws = s,
            !.connectionStatus = "connected",
            !.reconnectAttempts = 0,
            !.sockets[s].state = "open"]

\* whether websocket.onclose schedules a reconnect
SchedulesReconnect(T) == T.reconnectAttempts < MaxReconnectAttempts

\* websocket.onclose of socket s (the socket is gone afterwards)
onclose(T, s) ==
  LET T1 == [T EXCEPT !.connectionStatus = "disconnected",
                      !.sockets = [x \in DOMAIN T.sockets \ {s} |-> T.sockets[x]]]
  IN IF SchedulesReconnect(T1)
     THEN [T1 EXCEPT !.timers = Append(T1.timers,
                        [pipelineId |-> T.sockets[s].pipelineId,
                         delay |-> ReconnectDelay(T1.reconnectAttempts),
                         stale |-> FALSE])]
     ELSE T1

\* (mutant) the timer callback without the increment
reconnectTimerNoIncrement(T, i) ==
  connect([T EXCEPT !.timers = RemoveAt(T.timers, i)], T.timers[i].pipelineId)

\* the setTimeout callback scheduled by websocket.onclose
reconnectTimer(T, i) ==
  LET T1 == [T EXCEPT !.reconnectAttempts = T.reconnectAttempts + 1,
                      !.timers = RemoveAt(T.timers, i)]
  IN connect(T1, T.timers[i].pipelineId)

(***************************************************************************)
(* Transport actions                                                       *)
(***************************************************************************)
CanCreateSocket == Cardinality(DOMAIN sockets) < MaxSockets

\* A timer set earlier with a delay that is not longer fires first.
TimerMayFire(i) ==
  \A j \in 1..(i - 1) : timers[j].delay > timers[i].delay

\* the caller calls connect(pipelineId)
CallConnect(p) ==
  /\ CanCreateSocket
  /\ SetTransport(connect(Transport, p))
  /\ UNCHANGED <<lastDelay, callsMade, requested>>
  /\ UNCHANGED syncVars

\* the caller calls disconnect(); every timer pending now predates it
CallDisconnect ==
  /\ SetTransport([disconnect(Transport) EXCEPT
                     !.timers = [i \in 1..Len(timers) |->
                                   [timers[i] EXCEPT !.stale = TRUE]]])
  /\ UNCHANGED <<lastDelay, callsMade, requested>>
  /\ UNCHANGED syncVars

\* the connection of socket s is established
OnOpen(s) ==
  /\ s \in DOMAIN sockets
  /\ sockets[s].state = "connecting"
  /\ SetTransport(onopen(Transport, s))
  /\ UNCHANGED <<lastDelay, callsMade, requested>>
  /\ UNCHANGED syncVars

\* socket s closes: the attempt failed, the connection dropped, or close() ended
OnClose(s) ==
  /\ s \in DOMAIN sockets
  /\ Len(timers) < MaxTimers \/ ~SchedulesReconnect(Transport)
  /\ SetTransport(onclose(Transport, s))
  /\ lastDelay' = IF Len(onclose(Transport, s).timers) > Len(timers)
                  THEN onclose(Transport, s).timers[Len(timers) + 1].delay
                  ELSE lastDelay
  /\ UNCHANGED <<callsMade, requested>>
  /\ UNCHANGED syncVars

\* reconnect timer i fires
TimerFire(i) ==
  /\ i \in 1..Len(timers)
  /\ TimerMayFire(i)
  /\ CanCreateSocket
  /\ SetTransport(reconnectTimer(Transport, i))
  /\ UNCHANGED <<lastDelay, callsMade, requested>>
  /\ UNCHANGED syncVars

\* useWebSocket(pipelineId), when pipelineId changes: the cleanup of the
\* effect that ran for the previous id, then the effect for the new id
useWebSocketEffect(T, previous, pipelineId) ==
  LET T1 == IF previous # NoPipeline THEN disconnect(T) ELSE T
  IN IF pipelineId # NoPipeline THEN connect(T1, pipelineId) ELSE T1

\* App renders with another current pipeline: the hook's effect runs for it
\* (every timer pending now predates the cleanup's disconnect)
UseWebSocket(p) ==
  /\ p # requested
  /\ CanCreateSocket
  /\ SetTransport([useWebSocketEffect(Transport, requested, p) EXCEPT
                     !.timers = [i \in 1..Len(timers) |->
                                   [timers[i] EXCEPT !.stale = (requested # NoPipeline)]]])
  /\ requested' = p
  /\ UNCHANGED <<lastDelay, callsMade>>
  /\ UNCHANGED syncVars

(***************************************************************************)
(* Workflow snapshots                                                      *)
(***************************************************************************)
\* null / no value
Null == <<>>

\* WorkflowPhase, in progress order; ERROR is outside the order
PhaseOrder == <<"initial", "url_collection", "url_validation", "schema_definition",
                "schema_validation", "code_generation", "ready_to_execute",
                "executing", "completed">>

ErrorPhase == "error"

PhaseIndex(p) == CHOOSE i \in 1..Len(PhaseOrder) : PhaseOrder[i] = p

\* the targets transitionToPhase is called with: the first step of the order,
\* a later phase, and the error phase
TransitionTargets == {"url_collection", "executing", ErrorPhase}

\* the payloads of updateURLs and updateSchema
SomeURLs == <<"u1">>
SomeFields == <<"f1">>

NoError == "null"

\* no error.response.data.detail
NoDetail == ""

ApprovalIds == 1..MaxApprovals

\* ids of a list of ApprovalRequest
Ids(list) == {list[i].id : i \in 1..Len(list)}

\* the entries of a list of ApprovalRequest with the given id
EntriesOf(list, id) == {i \in 1..Len(list) : list[i].id = id}

(***************************************************************************)
(* The backend, from the written specification (sections 3, 4.3, 4.4, 6):  *)
(* every accepted mutation bumps version; resolve is keyed by approval id  *)
(* and is a no-op for an id that is not pending; a transition is accepted  *)
(* only to the immediate next phase or into error.                         *)
(***************************************************************************)
InitialSnapshot ==
  [pipeline_id |-> "P1", phase |-> "initial", urls |-> <<>>, schema_fields |-> <<>>,
   pending_approvals |-> <<>>, approval_history |-> <<>>, phase_transitions |-> <<>>,
   version |-> 1]

\* resolve(approvalId, approved)
IsPending(S, id) == id \in Ids(S.pending_approvals)

resolve(S, id, approved) ==
  IF IsPending(S, id)
  THEN [S EXCEPT !.pending_approvals = SelectSeq(S.pending_approvals, LAMBDA a : a.id # id),
                 !.approval_history = Append(S.approval_history,
                     [id |-> id, status |-> IF approved THEN "approved" ELSE "rejected"]),
                 !.version = S.version + 1]
  ELSE S

\* (mutant) a coordinator that never expires anything
touchKeepsPending(S, E) == S

\* expiry: whenever the coordinator touches the snapshot, the pending
\* approvals whose expires_at has passed (E) are marked expired and moved to
\* the history
touch(S, E) ==
  IF Ids(S.pending_approvals) \cap E = {}
  THEN S
  ELSE [S EXCEPT !.pending_approvals = SelectSeq(S.pending_approvals, LAMBDA a : a.id \notin E),
                 !.approval_history =
                   S.approval_history \o
                   [i \in 1..Len(SelectSeq(S.pending_approvals, LAMBDA a : a.id \in E)) |->
                      [id |-> SelectSeq(S.pending_approvals, LAMBDA a : a.id \in E)[i].id,
                       status |-> "expired"]],
                 !.version = S.version + 1]

\* requestApproval(...)
requestApproval(S, id) ==
  [S EXCEPT !.pending_approvals = Append(S.pending_approvals, [id |-> id, status |-> "pending"]),
            !.version = S.version + 1]

\* the transition rule
TransitionAccepted(S, target) ==
  /\ S.phase # ErrorPhase
  /\ \/ target = ErrorPhase
     \/ /\ PhaseIndex(S.phase) < Len(PhaseOrder)
        /\ target = PhaseOrder[PhaseIndex(S.phase) + 1]

transition(S, target) ==
  [S EXCEPT !.phase_transitions = Append(S.phase_transitions,
                                         [from_phase |-> S.phase, to_phase |-> target]),
            !.phase = target,
            !.version = S.version + 1]

submitURLs(S, urls) == [S EXCEPT !.urls = urls, !.version = S.version + 1]

submitSchema(S, fields) == [S EXCEPT !.schema_fields = fields, !.version = S.version + 1]

\* the snapshot of a workflow that went from the initial phase to phase c by
\* accepted transitions only
SnapshotAt(c) ==
  LET n == IF c = ErrorPhase THEN 1 ELSE PhaseIndex(c) - 1 IN
    [InitialSnapshot EXCEPT
       !.phase = c,
       !.phase_transitions =
          [i \in 1..n |-> [from_phase |-> PhaseOrder[i],
                           to_phase |-> IF c = ErrorPhase THEN ErrorPhase
                                        ELSE PhaseOrder[i + 1]]],
       !.version = 1 + n]

\* the pipeline document the pipeline store holds at the start
InitialPipeline == [id |-> "P1", state |-> 0]

(***************************************************************************)
(* useWorkflowStore                                                        *)
(***************************************************************************)
Store == [currentWorkflow |-> currentWorkflow, workflowHistory |-> workflowHistory,
          pendingApprovals |-> pendingApprovals, isProcessing |-> isProcessing,
          error |-> error]

SetStore(W) ==
  /\ currentWorkflow' = W.currentWorkflow
  /\ workflowHistory' = W.workflowHistory
  /\ pendingApprovals' = W.pendingApprovals
  /\ isProcessing' = W.isProcessing
  /\ error' = W.error

\* (mutant) setWorkflow that merges the approval history into the held one
setWorkflowMergesHistory(W, workflow) ==
  [W EXCEPT !.currentWorkflow =
              IF W.currentWorkflow = Null THEN workflow
              ELSE [workflow EXCEPT !.approval_history =
                      W.currentWorkflow.approval_history \o workflow.approval_history],
            !.pendingApprovals = workflow.pending_approvals,
            !.workflowHistory = workflow.phase_transitions]

\* setWorkflow(workflow)
setWorkflow(W, workflow) ==
  [W EXCEPT !.currentWorkflow = workflow,
            !.pendingApprovals = workflow.pending_approvals,
            !.workflowHistory = workflow.phase_transitions]

\* updateWorkflowPhase(phase)
updateWorkflowPhase(W, phase) ==
  [W EXCEPT !.currentWorkflow =
              IF W.currentWorkflow # Null
              THEN [W.currentWorkflow EXCEPT !.phase = phase]
              ELSE Null]

\* addURLs(urls)
addURLs(W, urls) ==
  [W EXCEPT !.currentWorkflow =
              IF W.currentWorkflow # Null
              THEN [W.currentWorkflow EXCEPT !.urls = W.currentWorkflow.urls \o urls]
              ELSE Null]

\* the synchronous part of updateURLs / updateSchema / approveAction /
\* transitionToPhase / fetchWorkflow: set({ isProcessing: true, error: null })
beginCall(W) == [W EXCEPT !.isProcessing = TRUE, !.error = NoError]

\* the early return of the calls that need a snapshot
HasWorkflow(W) == W.currentWorkflow # Null

\* updateURLs / updateSchema / transitionToPhase after the await:
\* set({ currentWorkflow: response.data.workflow }), finally isProcessing false
applyWorkflowResponse(W, workflow) ==
  [W EXCEPT !.currentWorkflow = workflow, !.isProcessing = FALSE]

\* (mutant) approveAction that leaves pendingApprovals alone
applyApproveResponseKeepsPending(W, workflow) ==
  [W EXCEPT !.currentWorkflow = workflow, !.isProcessing = FALSE]

\* approveAction after the await
applyApproveResponse(W, workflow) ==
  [W EXCEPT !.currentWorkflow = workflow,
            !.pendingApprovals = workflow.pending_approvals,
            !.isProcessing = FALSE]

\* fetchWorkflow after the await: set({ currentWorkflow: response.data })
applyFetchResponse(W, workflow) ==
  [W EXCEPT !.currentWorkflow = workflow, !.isProcessing = FALSE]

\* the catch and finally branches: error.response?.data?.detail || 'Failed to ...'
FallbackMessage(op) ==
  CASE op = "updateURLs" -> "Failed to update URLs"
    [] op = "updateSchema" -> "Failed to update schema"
    [] op = "approveAction" -> "Failed to process approval"
    [] op = "transitionToPhase" -> "Failed to transition phase"
    [] op = "fetchWorkflow" -> "Failed to fetch workflow"

\* fetchWorkflowHistory after the await:
\* set({ workflowHistory: response.data.transitions })
applyHistoryResponse(W, workflow) ==
  [W EXCEPT !.workflowHistory = workflow.phase_transitions]

\* (mutant) a catch that gives up the pending approvals
failCallDropsPending(W, op, detail) ==
  [W EXCEPT !.error = IF detail # NoDetail THEN detail ELSE FallbackMessage(op),
            !.pendingApprovals = <<>>,
            !.isProcessing = FALSE]

\* the catch of fetchWorkflowHistory only logs
failCall(W, op, detail) ==
  IF op = "fetchWorkflowHistory"
  THEN W
  ELSE [W EXCEPT !.error = IF detail # NoDetail THEN detail ELSE FallbackMessage(op),
                 !.isProcessing = FALSE]

\* the store's reaction to the response of call c
applyResponse(W, c) ==
  CASE c.op = "approveAction" -> applyApproveResponse(W, c.resp)
    [] c.op = "fetchWorkflow" -> applyFetchResponse(W, c.resp)
    [] c.op = "fetchWorkflowHistory" -> applyHistoryResponse(W, c.resp)
    [] OTHER -> applyWorkflowResponse(W, c.resp)

(***************************************************************************)
(* useWebSocketStore.send and handleWebSocketMessage                       *)
(***************************************************************************)
\* send(data): transmitted only with a socket and connectionStatus 'connected'
SendAccepted(T) == T.ws # NoSocket /\ T.connectionStatus = "connected"

\* (mutant) send that hands the data over in every status
sendInAnyStatus(T, queue, data) == Append(queue, data)

send(T, queue, data) == IF SendAccepted(T) THEN Append(queue, data) ELSE queue

Frame(type, workflow, approval) == [type |-> type, workflow |-> workflow, approval |-> approval]

\* the workflow a frame carries for the workflow store, if any (data.workflow,
\* and data.workflow_state for a response)
FrameWorkflow(f) ==
  IF f.type \in {"workflow_update", "workflow_state", "response"} THEN f.workflow ELSE Null

\* handleWebSocketMessage(data), the part that acts on the workflow store
handleWebSocketMessage(W, f) ==
  CASE f.type = "workflow_update" -> IF f.workflow # Null THEN setWorkflow(W, f.workflow) ELSE W
    [] f.type = "workflow_state" -> IF f.workflow # Null THEN setWorkflow(W, f.workflow) ELSE W
    [] f.type = "response" -> IF f.workflow # Null THEN setWorkflow(W, f.workflow) ELSE W
    [] OTHER -> W

\* the text of a frame that is not valid JSON (here: the frame cut short)
Truncated(f) ==
  [type |-> f.type, workflow |-> f.workflow, approval |-> f.approval, truncated |-> TRUE]

\* whether JSON.parse(event.data) returns
Parses(raw) == "truncated" \notin DOMAIN raw

\* (mutant) onmessage that dispatches whatever arrives
onmessageDispatchesAll(W, raw) == handleWebSocketMessage(W, raw)

\* websocket.onmessage: try { handleWebSocketMessage(JSON.parse(event.data)) }
\* catch { console.error(...) }
onmessage(W, raw) == IF Parses(raw) THEN handleWebSocketMessage(W, raw) ELSE W

\* the cases of the switch in handleWebSocketMessage
KnownTypes == {"state_update", "workflow_update", "workflow_state", "approval_request",
               "execution_update", "error", "response"}

\* the store's handler applies the frame's workflow: setWorkflow is called
StoreApplies(raw) == Parses(raw) /\ FrameWorkflow(raw) # Null

\* the sidebar's listener is attached to the socket the store holds
SidebarListens(T) == T.ws # NoSocket

\* the sidebar's handler applies the frame's workflow: setWorkflowState is called
SidebarApplies(T, raw) ==
  SidebarListens(T) /\ Parses(raw) /\ raw.type \in {"workflow_state", "workflow_update"}

\* WorkflowSidebar.handleMessage, the part that acts on workflowState
sidebarHandleMessage(T, state, raw) == IF SidebarApplies(T, raw) THEN raw.workflow ELSE state

\* the prompts an approval request raises: the dialog of ApprovalManager (the
\* 'approval-request' event of handleWebSocketMessage) and the window.confirm
\* of WorkflowSidebar.handleApprovalRequest
DialogPrompted(raw) == Parses(raw) /\ raw.type = "approval_request" /\ raw.approval # Null

ConfirmPrompted(T, raw) == SidebarListens(T) /\ Parses(raw) /\ raw.type = "approval_request"

ApprovalFrame(id, approved) ==
  [type |-> "approval", approval_id |-> id, approved |-> approved]

StateRequestFrame == [type |-> "state_request", approval_id |-> 0, approved |-> FALSE]

Call(op, id, approved, phase) ==
  [op |-> op, approval_id |-> id, approved |-> approved, target_phase |-> phase,
   stage |-> "sent", resp |-> Null, detail |-> NoDetail]

Submission(via, approved) == [via |-> via, approved |-> approved]

NoteSubmit(f, id, via, approved) ==
  IF f[id] = Null THEN [f EXCEPT ![id] = Submission(via, approved)] ELSE f

(***************************************************************************)
(* WorkflowSidebar: the status of each phase                               *)
(***************************************************************************)
\* phases.map(p => p.id): the ids of the sidebar's own list of phases
phases == <<"initial", "url_collection", "url_validation", "schema_definition",
            "schema_validation", "code_generation", "ready_to_execute",
            "executing", "completed">>

PhaseIds == {phases[i] : i \in 1..Len(phases)}

\* no render has derived a status yet
NotRendered == "unrendered"

\* Array.prototype.indexOf: the first position from 0, or -1
indexOf(list, x) ==
  IF \E i \in 1..Len(list) : list[i] = x
  THEN (CHOOSE i \in 1..Len(list) :
          list[i] = x /\ \A j \in 1..(i - 1) : list[j] # x) - 1
  ELSE -1

\* (mutant) the derivation without the error override
getPhaseStatusNoOverride(state, phaseId) ==
  IF state = Null THEN "pending"
  ELSE LET currentIndex == indexOf(phases, state.phase)
           targetIndex == indexOf(phases, phaseId)
       IN IF targetIndex < currentIndex THEN "completed"
          ELSE IF targetIndex = currentIndex THEN "active"
          ELSE "pending"

\* getPhaseStatus(phaseId), with workflowState as state
getPhaseStatus(state, phaseId) ==
  IF state = Null THEN "pending"
  ELSE LET currentIndex == indexOf(phases, state.phase)
           targetIndex == indexOf(phases, phaseId)
       IN IF state.phase = "error" THEN "error"
          ELSE IF targetIndex < currentIndex THEN "completed"
          ELSE IF targetIndex = currentIndex THEN "active"
          ELSE "pending"

\* the render derives the status of phase p: phases.map(... getPhaseStatus(phase.id))
RenderPhase(p) ==
  /\ phaseStatus[p] = NotRendered
  /\ phaseStatus' = [phaseStatus EXCEPT ![p] = getPhaseStatus(workflowState, p)]
  /\ UNCHANGED <<storeVars, currentApproval, showReason, inbox, outbox, calls, server,
                 firstSubmit, firstHandled, restApplied, lastEffect, offered, elapsed,
                 workflowState, parseFailed, pipelineVars, approvalLog>>
  /\ UNCHANGED transportVars

(***************************************************************************)
(* usePipelineStore.updatePipeline and the state_update frames             *)
(***************************************************************************)
\* a state_update frame carrying the k-th state of the pipeline
StateFrame(k) == [type |-> "state_update", workflow |-> Null, approval |-> Null, state |-> k]

\* updatePipeline(id, data) up to the await: api.put(`/pipelines/${id}`, data)
Put(id, data) == [id |-> id, data |-> data]

\* the document the backend answers a PUT with
UpdatedPipeline(c) == [id |-> c.id, state |-> c.data]

\* updatePipeline after the await: the set(...) with response.data
applyUpdatePipeline(P, id, updatedPipeline) ==
  [pipelines |-> [i \in 1..Len(P.pipelines) |->
                    IF P.pipelines[i].id = id THEN updatedPipeline ELSE P.pipelines[i]],
   currentPipeline |-> IF P.currentPipeline # Null /\ P.currentPipeline.id = id
                       THEN updatedPipeline
                       ELSE P.currentPipeline]

\* handleWebSocketMessage, case 'state_update': the calls in flight afterwards
handleStateUpdate(P, calls_, f) ==
  IF f.state # 0 /\ P.currentPipeline # Null
  THEN Append(calls_, Put(P.currentPipeline.id, f.state))
  ELSE calls_

\* the backend emits the next state of the pipeline
SrvStateUpdate ==
  /\ stateSeq < MaxUpdates
  /\ Len(inbox) < MaxInbox
  /\ stateSeq' = stateSeq + 1
  /\ inbox' = Append(inbox, StateFrame(stateSeq + 1))
  /\ UNCHANGED <<storeVars, currentApproval, showReason, outbox, calls, server,
                 firstSubmit, firstHandled, restApplied>>
  /\ UNCHANGED <<transportVars, sidebarVars, elapsed, workflowState, parseFailed,
                 pipelineStore, puts, applied, approvalLog>>

\* websocket.onmessage for a state_update frame (the sidebar's listener
\* ignores the type)
OnMessageStateUpdate ==
  /\ inbox # <<>>
  /\ Parses(Head(inbox))
  /\ Head(inbox).type = "state_update"
  /\ Len(puts) < MaxPuts
  /\ inbox' = Tail(inbox)
  /\ puts' = handleStateUpdate(pipelineStore, puts, Head(inbox))
  /\ parseFailed' = FALSE
  /\ UNCHANGED <<storeVars, currentApproval, showReason, outbox, calls, server,
                 firstSubmit, firstHandled, restApplied>>
  /\ UNCHANGED <<transportVars, sidebarVars, elapsed, workflowState,
                 pipelineStore, stateSeq, applied, approvalLog>>

\* the await of updatePipeline call i resumes with the response
PutRespond(i) ==
  /\ i \in 1..Len(puts)
  /\ pipelineStore' = applyUpdatePipeline(pipelineStore, puts[i].id, UpdatedPipeline(puts[i]))
  /\ puts' = RemoveAt(puts, i)
  /\ applied' = Append(applied, puts[i].data)
  /\ UNCHANGED <<storeVars, currentApproval, showReason, inbox, outbox, calls, server,
                 firstSubmit, firstHandled, restApplied>>
  /\ UNCHANGED <<transportVars, sidebarVars, elapsed, workflowState, parseFailed,
                 stateSeq, approvalLog>>

\* the await of updatePipeline call i throws: the catch only logs
PutFail(i) ==
  /\ i \in 1..Len(puts)
  /\ puts' = RemoveAt(puts, i)
  /\ UNCHANGED <<storeVars, currentApproval, showReason, inbox, outbox, calls, server,
                 firstSubmit, firstHandled, restApplied>>
  /\ UNCHANGED <<transportVars, sidebarVars, elapsed, workflowState, parseFailed,
                 pipelineStore, stateSeq, applied, approvalLog>>

(***************************************************************************)
(* Client actions of the synchronization scenario                          *)
(***************************************************************************)
\* the message event of a frame that raises no prompt: websocket.onmessage
\* and the sidebar's listener
OnMessageWorkflow ==
  /\ inbox # <<>>
  /\ ~Parses(Head(inbox)) \/ Head(inbox).type \notin {"approval_request", "state_update"}
  /\ inbox' = Tail(inbox)
  /\ SetStore(onmessage(Store, Head(inbox)))
  /\ workflowState' = sidebarHandleMessage(Transport, workflowState, Head(inbox))
  /\ parseFailed' = ~Parses(Head(inbox))
  /\ UNCHANGED <<currentApproval, showReason, outbox, calls, server,
                 firstSubmit, firstHandled, restApplied>>
  /\ UNCHANGED <<transportVars, sidebarVars, elapsed, pipelineVars, approvalLog>>

\* websocket.onmessage for an approval request: handleWebSocketMessage raises
\* 'approval-request' (ApprovalManager shows the dialog), and the sidebar's
\* message listener asks window.confirm and sends the answer
OnMessageApprovalRequest(approved) ==
  /\ inbox # <<>>
  /\ Parses(Head(inbox))
  /\ Head(inbox).type = "approval_request"
  /\ Len(outbox) < MaxOutbox
  /\ inbox' = Tail(inbox)
  /\ currentApproval' = IF DialogPrompted(Head(inbox)) THEN Head(inbox).approval
                        ELSE currentApproval
  /\ showReason' = IF currentApproval = Null THEN FALSE ELSE showReason
  /\ outbox' = IF ConfirmPrompted(Transport, Head(inbox))
               THEN send(Transport, outbox, ApprovalFrame(Head(inbox).approval.id, approved))
               ELSE outbox
  /\ firstSubmit' = IF ConfirmPrompted(Transport, Head(inbox)) /\ SendAccepted(Transport)
                    THEN NoteSubmit(firstSubmit, Head(inbox).approval.id, "push", approved)
                    ELSE firstSubmit
  /\ parseFailed' = FALSE
  /\ approvalLog' = IF DialogPrompted(Head(inbox))
                    THEN [approvalLog EXCEPT !.received = @ \cup {Head(inbox).approval.id}]
                    ELSE approvalLog
  /\ UNCHANGED <<storeVars, calls, server, firstHandled, restApplied>>
  /\ UNCHANGED <<transportVars, sidebarVars, elapsed, workflowState, pipelineVars>>

\* ApprovalManager.handleApprove / handleReject, called by the dialog, up to the
\* await inside approveAction; the dialog then calls onClose
submitDecision(approved) ==
  LET id == currentApproval.id
      accepted == SendAccepted(Transport)
      issued == HasWorkflow(Store)
      f1 == IF accepted THEN NoteSubmit(firstSubmit, id, "push", approved) ELSE firstSubmit
  IN /\ Len(outbox) < MaxOutbox
     /\ Len(calls) < MaxInflight
     /\ outbox' = send(Transport, outbox, ApprovalFrame(id, approved))
     /\ IF issued
        THEN /\ SetStore(beginCall(Store))
             /\ calls' = Append(calls, Call("approveAction", id, approved, "initial"))
             /\ firstSubmit' = NoteSubmit(f1, id, "rest", approved)
        ELSE /\ UNCHANGED storeVars
             /\ calls' = calls
             /\ firstSubmit' = f1
     /\ currentApproval' = Null
     /\ showReason' = FALSE

\* ApprovalDialog.handleApprove
DialogApprove ==
  /\ currentApproval # Null
  /\ submitDecision(TRUE)
  /\ approvalLog' = [approvalLog EXCEPT !.answered = @ \cup {currentApproval.id}]
  /\ UNCHANGED <<inbox, server, firstHandled, restApplied>>
  /\ UNCHANGED quietVars

\* ApprovalDialog.handleReject: the first click shows the reason field
DialogRejectFirst ==
  /\ currentApproval # Null
  /\ ~showReason
  /\ showReason' = TRUE
  /\ UNCHANGED <<storeVars, currentApproval, inbox, outbox, calls, server,
                 firstSubmit, firstHandled, restApplied>>
  /\ UNCHANGED otherVars

\* ApprovalDialog.handleReject: the second click submits
DialogReject ==
  /\ currentApproval # Null
  /\ showReason
  /\ submitDecision(FALSE)
  /\ approvalLog' = [approvalLog EXCEPT !.answered = @ \cup {currentApproval.id}]
  /\ UNCHANGED <<inbox, server, firstHandled, restApplied>>
  /\ UNCHANGED quietVars

\* the dialog's close button: ApprovalManager.handleClose
DialogClose ==
  /\ currentApproval # Null
  /\ currentApproval' = Null
  /\ showReason' = FALSE
  /\ approvalLog' = [approvalLog EXCEPT !.answered = @ \cup {currentApproval.id}]
  /\ UNCHANGED <<storeVars, inbox, outbox, calls, server,
                 firstSubmit, firstHandled, restApplied>>
  /\ UNCHANGED quietVars

\* updateURLs / updateSchema / transitionToPhase up to the await
StartCall(c) ==
  /\ HasWorkflow(Store)
  /\ Len(calls) < MaxInflight
  /\ SetStore(beginCall(Store))
  /\ calls' = Append(calls, c)
  /\ UNCHANGED <<currentApproval, showReason, inbox, outbox, server,
                 firstSubmit, firstHandled, restApplied>>
  /\ UNCHANGED otherVars

ReqUpdateURLs == StartCall(Call("updateURLs", 0, FALSE, "initial"))

ReqUpdateSchema == StartCall(Call("updateSchema", 0, FALSE, "initial"))

ReqTransition(target) == StartCall(Call("transitionToPhase", 0, FALSE, target))

\* fetchWorkflow(pipelineId) up to the await (it needs no held snapshot)
ReqFetch ==
  /\ Len(calls) < MaxInflight
  /\ SetStore(beginCall(Store))
  /\ calls' = Append(calls, Call("fetchWorkflow", 0, FALSE, "initial"))
  /\ UNCHANGED <<currentApproval, showReason, inbox, outbox, server,
                 firstSubmit, firstHandled, restApplied>>
  /\ UNCHANGED otherVars

\* fetchWorkflowHistory(pipelineId) up to the await
ReqFetchHistory ==
  /\ Len(calls) < MaxInflight
  /\ calls' = Append(calls, Call("fetchWorkflowHistory", 0, FALSE, "initial"))
  /\ UNCHANGED <<storeVars, currentApproval, showReason, inbox, outbox, server,
                 firstSubmit, firstHandled, restApplied>>
  /\ UNCHANGED otherVars

\* a component calls updateWorkflowPhase(phase)
UpdateWorkflowPhase(phase) ==
  /\ SetStore(updateWorkflowPhase(Store, phase))
  /\ UNCHANGED <<currentApproval, showReason, inbox, outbox, calls, server,
                 firstSubmit, firstHandled, restApplied>>
  /\ UNCHANGED otherVars

\* a component calls addURLs(urls)
AddURLs ==
  /\ currentWorkflow # Null => Len(currentWorkflow.urls) < MaxURLs
  /\ SetStore(addURLs(Store, SomeURLs))
  /\ UNCHANGED <<currentApproval, showReason, inbox, outbox, calls, server,
                 firstSubmit, firstHandled, restApplied>>
  /\ UNCHANGED otherVars

\* the await of call i resumes with the response; a handleApprove /
\* handleReject that awaited approveAction then clears the dialog
Respond(i) ==
  /\ i \in 1..Len(calls)
  /\ calls[i].stage = "answered"
  /\ SetStore(applyResponse(Store, calls[i]))
  /\ calls' = RemoveAt(calls, i)
  /\ IF calls[i].op = "approveAction"
     THEN /\ currentApproval' = Null
          /\ showReason' = FALSE
          /\ restApplied' = [restApplied EXCEPT ![calls[i].approval_id] = @ \cup {calls[i].approved}]
     ELSE UNCHANGED <<currentApproval, showReason, restApplied>>
  /\ UNCHANGED <<inbox, outbox, server, firstSubmit, firstHandled>>
  /\ UNCHANGED otherVars

\* the await of call i throws: the backend rejected the request, or the
\* request or its response was lost
Fail(i) ==
  /\ i \in 1..Len(calls)
  /\ SetStore(failCall(Store, calls[i].op, calls[i].detail))
  /\ calls' = RemoveAt(calls, i)
  /\ IF calls[i].op = "approveAction"
     THEN /\ currentApproval' = Null
          /\ showReason' = FALSE
     ELSE UNCHANGED <<currentApproval, showReason>>
  /\ UNCHANGED <<inbox, outbox, server, firstSubmit, firstHandled, restApplied>>
  /\ UNCHANGED otherVars

(***************************************************************************)
(* Backend actions                                                         *)
(***************************************************************************)
NoteHandled(f, S, id, via, approved) ==
  IF IsPending(S, id) THEN [f EXCEPT ![id] = Submission(via, approved)] ELSE f

\* the backend handles the next frame of the push channel
SrvFrame ==
  /\ outbox # <<>>
  /\ Len(inbox) < MaxInbox
  /\ outbox' = Tail(outbox)
  /\ LET f == Head(outbox)
         S == touch(server, elapsed)
     IN
       IF f.type = "approval"
       THEN /\ resolve(S, f.approval_id, f.approved).version <= MaxVersion
            /\ server' = resolve(S, f.approval_id, f.approved)
            /\ firstHandled' = NoteHandled(firstHandled, S, f.approval_id, "push", f.approved)
            /\ inbox' = Append(inbox, Frame("workflow_update",
                                            resolve(S, f.approval_id, f.approved), Null))
       ELSE /\ S.version <= MaxVersion
            /\ server' = S
            /\ inbox' = Append(inbox, Frame("workflow_state", S, Null))
            /\ UNCHANGED firstHandled
  /\ UNCHANGED <<storeVars, currentApproval, showReason, calls, firstSubmit, restApplied>>
  /\ UNCHANGED otherVars

\* the result of a request at the backend: the new snapshot, or Null when
\* the request is rejected
Served(S, c) ==
  CASE c.op = "updateURLs" -> submitURLs(S, SomeURLs)
    [] c.op = "updateSchema" -> submitSchema(S, SomeFields)
    [] c.op = "approveAction" -> resolve(S, c.approval_id, c.approved)
    [] c.op = "transitionToPhase" ->
         IF TransitionAccepted(S, c.target_phase) THEN transition(S, c.target_phase) ELSE Null
    [] c.op = "fetchWorkflow" -> S
    [] c.op = "fetchWorkflowHistory" -> S

\* the backend handles request i and answers with the full snapshot
SrvCall(i) ==
  /\ i \in 1..Len(calls)
  /\ calls[i].stage = "sent"
  /\ LET S == touch(server, elapsed)
         r == Served(S, calls[i])
     IN
       IF r = Null
       THEN /\ S.version <= MaxVersion
            /\ server' = S
            /\ calls' = [calls EXCEPT ![i].stage = "rejected",
                                      ![i].detail = "Invalid transition"]
            /\ UNCHANGED firstHandled
       ELSE /\ r.version <= MaxVersion
            /\ server' = r
            /\ calls' = [calls EXCEPT ![i].stage = "answered", ![i].resp = r]
            /\ firstHandled' = IF calls[i].op = "approveAction"
                               THEN NoteHandled(firstHandled, S, calls[i].approval_id,
                                                "rest", calls[i].approved)
                               ELSE firstHandled
  /\ UNCHANGED <<storeVars, currentApproval, showReason, inbox, outbox,
                 firstSubmit, restApplied>>
  /\ UNCHANGED otherVars

\* the agent asks for an approval: a new pending approval, emitted to the client
AgentRequest(limit) ==
  /\ server.version < MaxVersion
  /\ Len(inbox) < MaxInbox
  /\ Len(server.pending_approvals) + Len(server.approval_history) < limit
  /\ LET id == Len(server.pending_approvals) + Len(server.approval_history) + 1 IN
       /\ server' = requestApproval(server, id)
       /\ inbox' = Append(inbox, Frame("approval_request", Null, [id |-> id, status |-> "pending"]))
  /\ UNCHANGED <<storeVars, currentApproval, showReason, outbox, calls,
                 firstSubmit, firstHandled, restApplied>>
  /\ UNCHANGED otherVars

AgentRequestApproval == AgentRequest(MaxApprovals)

\* the agent asks for one approval more, while the first may still be open
MaxRequests == MaxApprovals + 1

RequestIds == 1..MaxRequests

AgentRequestNext == AgentRequest(MaxRequests)

\* the agent moves the workflow on and answers with the new state
AgentTransition(target) ==
  /\ server.version < MaxVersion
  /\ Len(inbox) < MaxInbox
  /\ TransitionAccepted(server, target)
  /\ server' = transition(server, target)
  /\ inbox' = Append(inbox, Frame("response", transition(server, target), Null))
  /\ UNCHANGED <<storeVars, currentApproval, showReason, outbox, calls,
                 firstSubmit, firstHandled, restApplied>>
  /\ UNCHANGED otherVars

\* the backend emits a frame that is not valid JSON
SrvMalformed ==
  /\ Len(inbox) < MaxInbox
  /\ inbox' = Append(inbox, Truncated(Frame("workflow_update", server, Null)))
  /\ UNCHANGED <<storeVars, currentApproval, showReason, outbox, calls, server,
                 firstSubmit, firstHandled, restApplied>>
  /\ UNCHANGED otherVars

\* the backend emits a frame of a type that carries nothing for the workflow
\* store, or of a type the client does not know
OtherTypes == {"execution_update", "progress"}

SrvOther(type) ==
  /\ Len(inbox) < MaxInbox
  /\ inbox' = Append(inbox, Frame(type, server, Null))
  /\ UNCHANGED <<storeVars, currentApproval, showReason, outbox, calls, server,
                 firstSubmit, firstHandled, restApplied>>
  /\ UNCHANGED otherVars

\* the expires_at of a pending approval passes
Elapse(id) ==
  /\ IsPending(server, id)
  /\ id \notin elapsed
  /\ elapsed' = elapsed \cup {id}
  /\ UNCHANGED <<storeVars, currentApproval, showReason, inbox, outbox, calls, server,
                 firstSubmit, firstHandled, restApplied>>
  /\ UNCHANGED <<transportVars, sidebarVars, workflowState, parseFailed,
                 pipelineVars, approvalLog>>

\* The connection drops and is re-established (onclose, the reconnect timer,
\* connect, onopen): frames in flight in either direction are lost, and the
\* sidebar's effect on the new socket sends a fresh state request.
Reconnected ==
  /\ inbox # <<>> \/ outbox # <<StateRequestFrame>>
  /\ inbox' = <<>>
  /\ outbox' = send(Transport, <<>>, StateRequestFrame)
  /\ UNCHANGED <<storeVars, currentApproval, showReason, calls, server,
                 firstSubmit, firstHandled, restApplied>>
  /\ UNCHANGED otherVars

(***************************************************************************)
(* Callers of send on the transport: any component that passes a message   *)
(* to send, and the WorkflowSidebar effect that asks for the full state    *)
(* whenever the socket reference of the store changes (a current pipeline  *)
(* exists throughout).                                                     *)
(***************************************************************************)
Messages == 1..MaxMessages

NotOffered == "none"

MessageFrame(m) == [type |-> "message", approval_id |-> 0, approved |-> FALSE, message |-> m]

\* whether message m is among the frames handed to the socket
Transmitted(m) == \E i \in 1..Len(outbox) : outbox[i] = MessageFrame(m)

\* a caller passes message m to send(data)
CallSend(m) ==
  /\ offered[m] = NotOffered
  /\ Len(outbox) < MaxOutbox
  /\ outbox' = send(Transport, outbox, MessageFrame(m))
  /\ offered' = [offered EXCEPT ![m] = connectionStatus]
  /\ UNCHANGED <<storeVars, currentApproval, showReason, inbox, calls, server,
                 firstSubmit, firstHandled, restApplied, lastEffect, elapsed,
                 workflowState, parseFailed, phaseStatus, pipelineVars, approvalLog>>
  /\ UNCHANGED transportVars

\* (mutant) the effect without the request
stateRequestEffectSkips(T, queue) == queue

\* WorkflowSidebar, useEffect on [currentPipeline, ws, send]:
\* if (currentPipeline && ws) send({ type: 'state_request' })
stateRequestEffect(T, queue) ==
  IF T.ws # NoSocket THEN send(T, queue, StateRequestFrame) ELSE queue

\* the effect runs after the store's socket reference has changed
StateRequestEffect ==
  /\ ws # lastEffect.ws
  /\ Len(outbox) < MaxOutbox
  /\ outbox' = stateRequestEffect(Transport, outbox)
  /\ lastEffect' = [ws |-> ws, sent |-> outbox' # outbox]
  /\ UNCHANGED <<storeVars, currentApproval, showReason, inbox, calls, server,
                 firstSubmit, firstHandled, restApplied, offered, elapsed,
                 workflowState, parseFailed, phaseStatus, pipelineVars, approvalLog>>
  /\ UNCHANGED transportVars

\* the backend takes the next frame off the connection (its reply is not
\* part of the sending scenario)
Receive ==
  /\ outbox # <<>>
  /\ outbox' = Tail(outbox)
  /\ UNCHANGED <<storeVars, currentApproval, showReason, inbox, calls, server,
                 firstSubmit, firstHandled, restApplied, sidebarVars, elapsed,
                 workflowState, parseFailed, pipelineVars, approvalLog>>
  /\ UNCHANGED transportVars

(***************************************************************************)
(* Initial states                                                          *)
(***************************************************************************)
InitStore ==
  /\ currentWorkflow = Null
  /\ workflowHistory = <<>>
  /\ pendingApprovals = <<>>
  /\ isProcessing = FALSE
  /\ error = NoError

\* the sidebar before its first render, the pipeline store holding the
\* current pipeline, and an approval manager that was handed nothing yet
InitPipelineStore ==
  /\ pipelineStore = [pipelines |-> <<InitialPipeline>>, currentPipeline |-> InitialPipeline]
  /\ puts = <<>>
  /\ stateSeq = 0
  /\ applied = <<>>

InitObservers ==
  /\ phaseStatus = [p \in PhaseIds |-> NotRendered]
  /\ InitPipelineStore
  /\ approvalLog = [received |-> {}, answered |-> {}]

InitSync ==
  /\ InitStore
  /\ currentApproval = Null
  /\ showReason = FALSE
  /\ inbox = <<>>
  /\ outbox = <<>>
  /\ calls = <<>>
  /\ server = InitialSnapshot
  /\ firstSubmit = [id \in ApprovalIds |-> Null]
  /\ firstHandled = [id \in ApprovalIds |-> Null]
  /\ restApplied = [id \in ApprovalIds |-> {}]
  /\ elapsed = {}
  /\ workflowState = Null
  /\ parseFailed = FALSE
  /\ lastEffect = [ws |-> NoSocket, sent |-> FALSE]
  /\ offered = [m \in Messages |-> NotOffered]
  /\ InitObservers

InitTransport ==
  /\ ws = NoSocket
  /\ connectionStatus = "disconnected"
  /\ reconnectAttempts = 0
  /\ sockets = <<>>
  /\ timers = <<>>
  /\ lastDelay = 0
  /\ callsMade = 0
  /\ requested = NoPipeline

Init == InitTransport /\ InitSync

Next ==
  \/ \E p \in Pipelines : CallConnect(p)
  \/ CallDisconnect
  \/ \E s \in DOMAIN sockets : OnOpen(s)
  \/ \E s \in DOMAIN sockets : OnClose(s)
  \/ \E i \in 1..Len(timers) : TimerFire(i)

Spec == Init /\ [][Next]_vars

(***************************************************************************)
(* The retry scenario: no connection attempt ever opens.  The caller makes *)
(* at most MaxCalls connect calls; sockets always deliver their close      *)
(* event and timers always fire (the browser's event loop).                *)
(***************************************************************************)
BoundedConnect(p) ==
  /\ callsMade < MaxCalls
  /\ CanCreateSocket
  /\ SetTransport(connect(Transport, p))
  /\ callsMade' = callsMade + 1
  /\ UNCHANGED <<lastDelay, requested>>
  /\ UNCHANGED syncVars

NextRetry ==
  \/ \E p \in Pipelines : BoundedConnect(p)
  \/ \E s \in DOMAIN sockets : OnClose(s)
  \/ \E i \in 1..Len(timers) : TimerFire(i)

SpecRetry ==
  /\ Init
  /\ [][NextRetry]_vars
  /\ WF_vars(\E s \in DOMAIN sockets : OnClose(s))
  /\ WF_vars(\E i \in 1..Len(timers) : TimerFire(i))

(***************************************************************************)
(* The hook scenario: the transport driven by useWebSocket, the caller of  *)
(* connect and disconnect in the application.                              *)
(***************************************************************************)
NextHook ==
  \/ \E p \in Pipelines : UseWebSocket(p)
  \/ \E s \in DOMAIN sockets : OnOpen(s)
  \/ \E s \in DOMAIN sockets : OnClose(s)
  \/ \E i \in 1..Len(timers) : TimerFire(i)

SpecHook == Init /\ [][NextHook]_vars

(***************************************************************************)
(* The sending scenario: the transport with a caller of send.              *)
(***************************************************************************)
NextSend ==
  \/ \E p \in Pipelines : BoundedConnect(p)
  \/ CallDisconnect
  \/ \E s \in DOMAIN sockets : OnOpen(s)
  \/ \E s \in DOMAIN sockets : OnClose(s)
  \/ \E i \in 1..Len(timers) : TimerFire(i)
  \/ \E m \in Messages : CallSend(m)
  \/ Receive

SpecSend == Init /\ [][NextSend]_vars

(***************************************************************************)
(* The sidebar scenario: the transport with the mounted WorkflowSidebar.   *)
(***************************************************************************)
NextSidebar ==
  \/ \E p \in Pipelines : BoundedConnect(p)
  \/ CallDisconnect
  \/ \E s \in DOMAIN sockets : OnOpen(s)
  \/ \E s \in DOMAIN sockets : OnClose(s)
  \/ \E i \in 1..Len(timers) : TimerFire(i)
  \/ StateRequestEffect
  \/ Receive

SpecSidebar == Init /\ [][NextSidebar]_vars

(***************************************************************************)
(* The synchronization scenario: the connection for pipeline P1 is open    *)
(* (connect, then onopen) and the sidebar has sent its state request.      *)
(***************************************************************************)
InitConnectedFor(ids) ==
  /\ ws = 1
  /\ connectionStatus = "connected"
  /\ reconnectAttempts = 0
  /\ sockets = [s \in {1} |-> [state |-> "open", pipelineId |-> "P1"]]
  /\ timers = <<>>
  /\ lastDelay = 0
  /\ callsMade = 0
  /\ requested = "P1"
  /\ InitStore
  /\ currentApproval = Null
  /\ showReason = FALSE
  /\ inbox = <<>>
  /\ outbox = <<StateRequestFrame>>
  /\ calls = <<>>
  /\ server = InitialSnapshot
  /\ firstSubmit = [id \in ids |-> Null]
  /\ firstHandled = [id \in ids |-> Null]
  /\ restApplied = [id \in ids |-> {}]
  /\ elapsed = {}
  /\ workflowState = Null
  /\ parseFailed = FALSE
  /\ lastEffect = [ws |-> 1, sent |-> TRUE]
  /\ offered = [m \in Messages |-> NotOffered]
  /\ InitObservers

InitConnected == InitConnectedFor(ApprovalIds)

NextSync ==
  \/ OnMessageWorkflow
  \/ \E approved \in BOOLEAN : OnMessageApprovalRequest(approved)
  \/ DialogApprove
  \/ DialogRejectFirst
  \/ DialogReject
  \/ DialogClose
  \/ ReqUpdateURLs
  \/ ReqUpdateSchema
  \/ \E target \in TransitionTargets : ReqTransition(target)
  \/ ReqFetch
  \/ \E i \in 1..Len(calls) : Respond(i)
  \/ \E i \in 1..Len(calls) : Fail(i)
  \/ SrvFrame
  \/ \E i \in 1..Len(calls) : SrvCall(i)
  \/ AgentRequestApproval
  \/ \E target \in {PhaseOrder[i] : i \in 1..Len(PhaseOrder)} \cup {ErrorPhase} :
       AgentTransition(target)
  \/ Reconnected

SpecSync == InitConnected /\ [][NextSync]_vars

(***************************************************************************)
(* The store scenario: the workflow store with its local mutators, its     *)
(* request/response calls and the workflow frames of the push channel.     *)
(***************************************************************************)
NextStore ==
  \/ OnMessageWorkflow
  \/ ReqUpdateURLs
  \/ ReqUpdateSchema
  \/ \E target \in TransitionTargets : ReqTransition(target)
  \/ ReqFetch
  \/ ReqFetchHistory
  \/ \E i \in 1..Len(calls) : Respond(i)
  \/ \E i \in 1..Len(calls) : Fail(i)
  \/ SrvFrame
  \/ \E i \in 1..Len(calls) : SrvCall(i)
  \/ \E target \in {PhaseOrder[i] : i \in 1..Len(PhaseOrder)} \cup {ErrorPhase} :
       AgentTransition(target)
  \/ \E phase \in TransitionTargets : UpdateWorkflowPhase(phase)
  \/ AddURLs

SpecStore == InitConnected /\ [][NextStore]_vars

(***************************************************************************)
(* The approval scenario: the part of the synchronization scenario that    *)
(* creates, shows and resolves approvals, with fetchWorkflow as the        *)
(* request/response call that can bring back an older snapshot.            *)
(***************************************************************************)
NextApproval ==
  \/ OnMessageWorkflow
  \/ \E approved \in BOOLEAN : OnMessageApprovalRequest(approved)
  \/ DialogApprove
  \/ DialogRejectFirst
  \/ DialogReject
  \/ DialogClose
  \/ ReqFetch
  \/ \E i \in 1..Len(calls) : Respond(i)
  \/ \E i \in 1..Len(calls) : Fail(i)
  \/ SrvFrame
  \/ \E i \in 1..Len(calls) : SrvCall(i)
  \/ AgentRequestApproval

SpecApproval == InitConnected /\ [][NextApproval]_vars

(***************************************************************************)
(* The dispatch scenario: the frames of the approval scenario, frames that *)
(* do not parse and frames of other types.                                 *)
(***************************************************************************)
NextDispatch ==
  \/ OnMessageWorkflow
  \/ \E approved \in BOOLEAN : OnMessageApprovalRequest(approved)
  \/ DialogApprove
  \/ DialogClose
  \/ \E i \in 1..Len(calls) : Respond(i)
  \/ SrvFrame
  \/ \E i \in 1..Len(calls) : SrvCall(i)
  \/ AgentRequestApproval
  \/ SrvMalformed
  \/ \E type \in OtherTypes : SrvOther(type)

SpecDispatch == InitConnected /\ [][NextDispatch]_vars

(***************************************************************************)
(* The expiry scenario: approvals are requested, prompted and resolved on  *)
(* both channels, and the expires_at of a pending approval may pass before *)
(* it is resolved.                                                         *)
(***************************************************************************)
NextExpiry ==
  \/ OnMessageWorkflow
  \/ \E approved \in BOOLEAN : OnMessageApprovalRequest(approved)
  \/ DialogApprove
  \/ DialogRejectFirst
  \/ DialogReject
  \/ \E i \in 1..Len(calls) : Respond(i)
  \/ SrvFrame
  \/ \E i \in 1..Len(calls) : SrvCall(i)
  \/ AgentRequestApproval
  \/ \E id \in ApprovalIds : Elapse(id)

SpecExpiry == InitConnected /\ [][NextExpiry]_vars

(***************************************************************************)
(* The stalled-request scenario: the approval scenario in which the        *)
(* response of a request/response call may never arrive.                   *)
(***************************************************************************)
NextStall ==
  \/ OnMessageWorkflow
  \/ \E approved \in BOOLEAN : OnMessageApprovalRequest(approved)
  \/ DialogApprove
  \/ DialogRejectFirst
  \/ DialogReject
  \/ \E i \in 1..Len(calls) : Respond(i)
  \/ \E i \in 1..Len(calls) : Fail(i)
  \/ SrvFrame
  \/ \E i \in 1..Len(calls) : SrvCall(i)
  \/ AgentRequestApproval

SpecStall == InitConnected /\ [][NextStall]_vars

(***************************************************************************)
(* The approval manager scenario: the agent may ask for a second approval  *)
(* while the dialog still shows the first.                                 *)
(***************************************************************************)
InitManager == InitConnectedFor(RequestIds)

NextManager ==
  \/ OnMessageWorkflow
  \/ \E approved \in BOOLEAN : OnMessageApprovalRequest(approved)
  \/ DialogApprove
  \/ DialogRejectFirst
  \/ DialogReject
  \/ DialogClose
  \/ \E i \in 1..Len(calls) : Respond(i)
  \/ SrvFrame
  \/ \E i \in 1..Len(calls) : SrvCall(i)
  \/ AgentRequestNext

SpecManager == InitManager /\ [][NextManager]_vars

(***************************************************************************)
(* The status scenario: the sidebar holds no snapshot yet, or the snapshot *)
(* of a workflow in any phase, and renders its list of phases.             *)
(***************************************************************************)
InitStatus ==
  /\ ws = 1
  /\ connectionStatus = "connected"
  /\ reconnectAttempts = 0
  /\ sockets = [s \in {1} |-> [state |-> "open", pipelineId |-> "P1"]]
  /\ timers = <<>>
  /\ lastDelay = 0
  /\ callsMade = 0
  /\ requested = "P1"
  /\ \E c \in PhaseIds \cup {ErrorPhase} : server = SnapshotAt(c)
  /\ \/ /\ InitStore
        /\ workflowState = Null
        /\ outbox = <<StateRequestFrame>>
     \/ /\ currentWorkflow = server
        /\ workflowHistory = server.phase_transitions
        /\ pendingApprovals = server.pending_approvals
        /\ isProcessing = FALSE
        /\ error = NoError
        /\ workflowState = server
        /\ outbox = <<>>
  /\ currentApproval = Null
  /\ showReason = FALSE
  /\ inbox = <<>>
  /\ calls = <<>>
  /\ firstSubmit = [id \in ApprovalIds |-> Null]
  /\ firstHandled = [id \in ApprovalIds |-> Null]
  /\ restApplied = [id \in ApprovalIds |-> {}]
  /\ elapsed = {}
  /\ parseFailed = FALSE
  /\ lastEffect = [ws |-> 1, sent |-> TRUE]
  /\ offered = [m \in Messages |-> NotOffered]
  /\ InitObservers

NextStatus == \E p \in PhaseIds : RenderPhase(p)

SpecStatus == InitStatus /\ [][NextStatus]_vars

(***************************************************************************)
(* The pipeline scenario: state_update frames, whose effect on the         *)
(* pipeline document goes through updatePipeline, next to workflow frames. *)
(***************************************************************************)
NextPipeline ==
  \/ SrvStateUpdate
  \/ OnMessageStateUpdate
  \/ \E i \in 1..Len(puts) : PutRespond(i)
  \/ \E i \in 1..Len(puts) : PutFail(i)
  \/ SrvFrame
  \/ OnMessageWorkflow
  \/ \E target \in {PhaseOrder[i] : i \in 1..Len(PhaseOrder)} \cup {ErrorPhase} :
       AgentTransition(target)

SpecPipeline == InitConnected /\ [][NextPipeline]_vars

(***************************************************************************)
(* Synchronization claims                                                  *)
(***************************************************************************)
StatusOf(submission) == IF submission.approved THEN "approved" ELSE "rejected"

\* every snapshot that exists: the backend's, those in responses and frames
\* in flight, and the one the client holds
Snapshots ==
  {server}
  \cup {calls[i].resp : i \in {j \in 1..Len(calls) : calls[j].resp # Null}}
  \cup {inbox[i].workflow : i \in {j \in 1..Len(inbox) : inbox[j].workflow # Null}}
  \cup (IF currentWorkflow # Null THEN {currentWorkflow} ELSE {})

\* snapshot S records approval id exactly once, with the given status
RecordsOnce(S, id, status) ==
  /\ Cardinality(EntriesOf(S.approval_history, id)) = 1
  /\ \A i \in EntriesOf(S.approval_history, id) : S.approval_history[i].status = status
  /\ id \notin Ids(S.pending_approvals)

\* C1 as stated: when approved=true was submitted first, on the push channel,
\* a later approveAction(id, false) has had its response applied and no
\* submission for the id is in flight any more, the held snapshot records the
\* approval once, as approved.
InFlight(id) ==
  \/ \E i \in 1..Len(outbox) : outbox[i].type = "approval" /\ outbox[i].approval_id = id
  \/ \E i \in 1..Len(calls) : calls[i].op = "approveAction" /\ calls[i].approval_id = id

C1_FirstSubmittedWins ==
  \A id \in ApprovalIds :
    (/\ firstSubmit[id] = Submission("push", TRUE)
     /\ FALSE \in restApplied[id]
     /\ ~InFlight(id)
     /\ currentWorkflow # Null)
    => RecordsOnce(currentWorkflow, id, "approved")

\* C1 (amended): the resolution the backend handles first wins.  Every
\* snapshot that records a resolution of an approval records it once, with
\* the outcome of the first resolution handled, and not as pending as well;
\* the backend records it as soon as it has handled one.
C1_FirstHandledWins ==
  \A id \in ApprovalIds :
    /\ firstHandled[id] # Null =>
         RecordsOnce(server, id, StatusOf(firstHandled[id]))
    /\ \A S \in Snapshots :
         EntriesOf(S.approval_history, id) # {} =>
           /\ firstHandled[id] # Null
           /\ RecordsOnce(S, id, StatusOf(firstHandled[id]))

C1_Witness ==
  \E id \in ApprovalIds :
    /\ firstHandled[id] = Submission("push", TRUE)
    /\ FALSE \in restApplied[id]
    /\ currentWorkflow # Null
    /\ RecordsOnce(currentWorkflow, id, "approved")

\* C2: whenever the response of an approveAction call is applied, however
\* many resolutions of that id went before, the id is recorded once with the
\* outcome first recorded and is in none of the pending lists.
C2_ResolveIdempotent ==
  [][\A i \in 1..Len(calls) :
       (Respond(i) /\ calls[i].op = "approveAction") =>
         /\ firstHandled'[calls[i].approval_id] # Null
         /\ RecordsOnce(currentWorkflow', calls[i].approval_id,
                        StatusOf(firstHandled'[calls[i].approval_id]))
         /\ calls[i].approval_id \notin Ids(pendingApprovals')]_vars

C2_Witness ==
  \E id \in ApprovalIds :
    /\ firstHandled[id] = Submission("push", TRUE)
    /\ TRUE \in restApplied[id]
    /\ currentWorkflow # Null
    /\ RecordsOnce(currentWorkflow, id, "approved")
    /\ id \notin Ids(pendingApprovals)

\* C3: dispatching a frame whose workflow has a version not above the held
\* one leaves the held workflow as it is (so its version never goes down).
C3_StaleFrameDiscarded ==
  [][(/\ OnMessageWorkflow
      /\ currentWorkflow # Null
      /\ FrameWorkflow(Head(inbox)) # Null
      /\ FrameWorkflow(Head(inbox)).version <= currentWorkflow.version)
     => currentWorkflow' = currentWorkflow]_vars

\* C4: a response whose snapshot has a version not above the held one is
\* ignored: the held workflow stays as it is.
C4_StaleResponseIgnored ==
  [][\A i \in 1..Len(calls) :
       (/\ Respond(i)
        /\ currentWorkflow # Null
        /\ calls[i].resp.version <= currentWorkflow.version)
       => currentWorkflow' = currentWorkflow]_vars

\* C5: after a fetchWorkflow response with a higher version is applied, the
\* held snapshot and the lists derived from it are that version's contents.
C5_RefetchReplacesAll ==
  [][\A i \in 1..Len(calls) :
       (/\ Respond(i)
        /\ calls[i].op = "fetchWorkflow"
        /\ currentWorkflow # Null
        /\ calls[i].resp.version > currentWorkflow.version)
       => /\ currentWorkflow' = calls[i].resp
          /\ pendingApprovals' = calls[i].resp.pending_approvals
          /\ workflowHistory' = calls[i].resp.phase_transitions]_vars

\* C17: in every state the ids pending in the store (pendingApprovals and
\* the held snapshot's pending_approvals) are disjoint from the ids of the
\* held approval_history, and an id the held history records is not pending
\* in the store after any step.
C17_PendingHistoryDisjoint ==
  /\ [](currentWorkflow # Null =>
         (Ids(pendingApprovals) \cup Ids(currentWorkflow.pending_approvals))
           \cap Ids(currentWorkflow.approval_history) = {})
  /\ [][currentWorkflow # Null =>
         \A id \in Ids(currentWorkflow.approval_history) :
           /\ id \notin Ids(pendingApprovals')
           /\ currentWorkflow' # Null => id \notin Ids(currentWorkflow'.pending_approvals)]_vars

\* the backend handles a resolution of approval id in this step
HandlesResolution(id) ==
  \/ SrvFrame /\ Head(outbox).type = "approval" /\ Head(outbox).approval_id = id
  \/ \E i \in 1..Len(calls) :
       SrvCall(i) /\ calls[i].op = "approveAction" /\ calls[i].approval_id = id

\* C18: a pending approval whose expires_at has passed is recorded once, as
\* expired, and is no longer pending as soon as the backend touches it; no
\* later step of the backend changes that record; and the response of a
\* later approveAction for the id leaves the store with the id recorded as
\* expired and not pending.
C18_ExpiredIsTerminal ==
  [][\A id \in ApprovalIds :
       /\ (HandlesResolution(id) /\ id \in elapsed /\ IsPending(server, id))
            => RecordsOnce(server', id, "expired")
       /\ RecordsOnce(server, id, "expired") => RecordsOnce(server', id, "expired")
       /\ \A i \in 1..Len(calls) :
            (/\ Respond(i)
             /\ calls[i].op = "approveAction"
             /\ calls[i].approval_id = id
             /\ id \in elapsed)
            => (RecordsOnce(currentWorkflow', id, "expired")
                /\ id \notin Ids(pendingApprovals'))]_vars

C18_Witness ==
  \E id \in ApprovalIds :
    /\ id \in elapsed
    /\ TRUE \in restApplied[id]
    /\ currentWorkflow # Null
    /\ RecordsOnce(currentWorkflow, id, "expired")
    /\ RecordsOnce(server, id, "expired")

(***************************************************************************)
(* Dispatch claims                                                         *)
(***************************************************************************)
\* C19: the message event of a frame that does not parse only consumes the
\* frame: the workflow store, the sidebar's copy, the dialog, the frames sent
\* and the connection are as before, and the frames behind it stay in line.
C19_MalformedFrameDropped ==
  [][(OnMessageWorkflow /\ ~Parses(Head(inbox))) =>
       /\ inbox' = Tail(inbox)
       /\ UNCHANGED <<storeVars, workflowState, currentApproval, showReason, outbox,
                      calls, transportVars>>]_vars

C19_Witness ==
  /\ parseFailed
  /\ currentWorkflow # Null
  /\ currentWorkflow # server
  /\ workflowState = currentWorkflow
  /\ inbox = <<>>

\* C20: every frame is handled by one handler: a frame of a type that is not
\* known changes nothing, an approval request raises one prompt, and the
\* workflow of a workflow_state / workflow_update frame is applied by one
\* handler.
C20_OneHandlerPerFrame ==
  [][/\ (OnMessageWorkflow /\ Parses(Head(inbox)) /\ Head(inbox).type \notin KnownTypes)
          => UNCHANGED <<storeVars, workflowState, currentApproval, showReason, outbox>>
     /\ \A approved \in BOOLEAN :
          OnMessageApprovalRequest(approved) =>
            ~(DialogPrompted(Head(inbox)) /\ ConfirmPrompted(Transport, Head(inbox)))
     /\ (OnMessageWorkflow /\ Head(inbox).type \in {"workflow_state", "workflow_update"})
          => ~(StoreApplies(Head(inbox)) /\ SidebarApplies(Transport, Head(inbox)))]_vars

(***************************************************************************)
(* Phase and version claims                                                *)
(***************************************************************************)
\* C13: a transition request that is neither a move to the immediate next
\* phase nor a move into error is rejected: updateWorkflowPhase leaves the
\* held snapshot as it is, and for transitionToPhase the backend keeps its
\* snapshot and rejects the request, and the rejection leaves the held
\* snapshot as it is and sets the error signal.
C13_InvalidTransitionRejected ==
  [][/\ \A phase \in TransitionTargets :
          (/\ UpdateWorkflowPhase(phase)
           /\ currentWorkflow # Null
           /\ ~TransitionAccepted(currentWorkflow, phase))
          => currentWorkflow' = currentWorkflow
     /\ \A i \in 1..Len(calls) :
          /\ (/\ SrvCall(i)
              /\ calls[i].op = "transitionToPhase"
              /\ ~TransitionAccepted(server, calls[i].target_phase))
             => (server' = server /\ calls'[i].stage = "rejected")
          /\ (Fail(i) /\ calls[i].stage = "rejected")
             => (currentWorkflow' = currentWorkflow /\ error' # NoError)]_vars

\* the last record of a transition log leads to the phase, or the log is
\* empty and the phase is the initial one
LogMatchesPhase(log, phase) ==
  IF log = <<>> THEN phase = "initial" ELSE log[Len(log)].to_phase = phase

\* C14: in every state the held snapshot's transition log, and the
\* workflowHistory the store derives from it, are consistent with the held
\* phase.
C14_LogConsistentWithPhase ==
  currentWorkflow # Null =>
    /\ LogMatchesPhase(currentWorkflow.phase_transitions, currentWorkflow.phase)
    /\ LogMatchesPhase(workflowHistory, currentWorkflow.phase)

\* C15: no step decreases the held version, and every step that changes the
\* held snapshot strictly increases it.
C15_VersionMonotonic ==
  [][(currentWorkflow # Null /\ currentWorkflow' # Null) =>
       /\ currentWorkflow'.version >= currentWorkflow.version
       /\ currentWorkflow' # currentWorkflow =>
            currentWorkflow'.version > currentWorkflow.version]_vars

\* C16: once the held phase is error, every step leaves it error.
C16_ErrorAbsorbing ==
  [][(currentWorkflow # Null /\ currentWorkflow.phase = ErrorPhase) =>
       (currentWorkflow' # Null /\ currentWorkflow'.phase = ErrorPhase)]_vars

(***************************************************************************)
(* Sending claims                                                          *)
(***************************************************************************)
\* C11: a message passed to send is handed to the socket exactly when the
\* status was 'connected' at the call; a message passed in any other status
\* is not among the transmitted frames, now or after a later reconnect.
C11_SendOnlyWhileConnected ==
  /\ [](\A m \in Messages :
         offered[m] \notin {NotOffered, "connected"} => ~Transmitted(m))
  /\ [][\A m \in Messages :
         CallSend(m) =>
           outbox' = IF connectionStatus = "connected"
                     THEN Append(outbox, MessageFrame(m)) ELSE outbox]_vars

C11_Witness ==
  \E m \in Messages :
    /\ offered[m] \in {"connecting", "disconnected"}
    /\ lastDelay > 0
    /\ connectionStatus = "connected"
    /\ ~Transmitted(m)

C6_AtMostOneLiveSocket == Cardinality(LiveSockets(Transport)) <= 1

\* C7: a reconnect timer that was pending when disconnect() was called
\* never performs its connect afterwards.
C7_DisconnectCancelsTimers ==
  [][\A i \in 1..Len(timers) : TimerFire(i) => ~timers[i].stale]_vars

\* C23: the close event of a socket that was closed by disconnect() (called
\* by the caller, or by connect on the socket it replaces) schedules no
\* reconnect timer.
C23_ReconnectOnlyOnUnexpectedClose ==
  [][\A s \in DOMAIN sockets :
       (OnClose(s) /\ sockets[s].state = "closing") => timers' = timers]_vars

\* the socket the store holds has opened and has not closed
HoldsOpenSocket(T) ==
  /\ T.ws # NoSocket
  /\ T.ws \in DOMAIN T.sockets
  /\ T.sockets[T.ws].state = "open"

\* C27: in every state connectionStatus is 'connected' exactly when the
\* store's ws is a socket that has opened and not closed.
C27_StatusAgreesWithSocket ==
  (connectionStatus = "connected") <=> HoldsOpenSocket(Transport)

\* C28: in every state reconnectAttempts is within 0..5.
C28_AttemptsBounded == reconnectAttempts \in 0..MaxReconnectAttempts

\* C29: the connection the store holds is addressed to the pipeline id the
\* hook last passed to connect, and no step creates a socket for another
\* pipeline id.
C29_ConnectionFollowsHook ==
  /\ [](HoldsOpenSocket(Transport) => sockets[ws].pipelineId = requested)
  /\ [][\A s \in DOMAIN sockets' \ DOMAIN sockets :
          sockets'[s].pipelineId = requested']_vars

\* C8: when no attempt ever opens, the manager eventually stops retrying
\* and stays disconnected with nothing scheduled.
Settled ==
  /\ timers = <<>>
  /\ DOMAIN sockets = {}
  /\ connectionStatus = "disconnected"

C8_RetryStops == <>[]Settled

C8_Witness == Settled /\ reconnectAttempts >= MaxReconnectAttempts

\* C9: without an open in between, every scheduled delay is
\* min(1000 * 2^attempts, 10000) for the attempts made so far, at most the
\* ceiling and never below the delay scheduled before it; a close with
\* reconnectAttempts at the cap schedules nothing.
C9_BackoffDelays ==
  /\ [](/\ lastDelay <= MaxDelay
        /\ \A i \in 1..Len(timers) :
             /\ timers[i].delay <= lastDelay
             /\ \E a \in 0..(MaxReconnectAttempts - 1) :
                  timers[i].delay = Min(BaseDelay * Pow2(a), MaxDelay))
  /\ [][/\ lastDelay' >= lastDelay
        /\ Len(timers') > Len(timers) =>
             /\ reconnectAttempts < MaxReconnectAttempts
             /\ lastDelay' = Min(BaseDelay * Pow2(reconnectAttempts), MaxDelay)]_vars

C9_Witness ==
  /\ reconnectAttempts = MaxReconnectAttempts
  /\ lastDelay = MaxDelay
  /\ timers = <<>>
  /\ DOMAIN sockets = {}

\* C10: immediately after a socket's onopen, reconnectAttempts is 0.
C10_OpenResetsAttempts ==
  [][(\E s \in DOMAIN sockets : OnOpen(s)) => reconnectAttempts' = 0]_vars

C10_Witness ==
  /\ connectionStatus = "connected"
  /\ reconnectAttempts = 0
  /\ lastDelay >= 2 * BaseDelay

(***************************************************************************)
(* Status claims                                                           *)
(***************************************************************************)
\* C21: the status a render derives for phase p from a snapshot in phase c
\* is error if c is error, else completed, active or pending as the index of
\* p is below, equal to or above the index of c; and for a snapshot in a
\* phase of the list exactly one phase of the list is derived active.
C21_StatusDerivation ==
  /\ \A p \in PhaseIds :
       (phaseStatus[p] # NotRendered /\ workflowState # Null) =>
         phaseStatus[p] =
           IF workflowState.phase = ErrorPhase THEN "error"
           ELSE IF PhaseIndex(p) < PhaseIndex(workflowState.phase) THEN "completed"
           ELSE IF PhaseIndex(p) = PhaseIndex(workflowState.phase) THEN "active"
           ELSE "pending"
  /\ (/\ workflowState # Null
      /\ workflowState.phase \in PhaseIds
      /\ \A p \in PhaseIds : phaseStatus[p] # NotRendered)
     => Cardinality({p \in PhaseIds : phaseStatus[p] = "active"}) = 1

C21_Witness ==
  /\ workflowState # Null
  /\ workflowState.phase = "schema_definition"
  /\ phaseStatus["url_validation"] = "completed"
  /\ phaseStatus["schema_definition"] = "active"
  /\ phaseStatus["schema_validation"] = "pending"
  /\ \A p \in PhaseIds : phaseStatus[p] # NotRendered

(***************************************************************************)
(* Stalled request claims                                                  *)
(***************************************************************************)
\* C26: issuing approveAction leaves the held snapshot and pendingApprovals
\* as they are and issues at most one request; and when the response of an
\* approveAction call is lost, the snapshot and pendingApprovals are still as
\* they were, the error is set, the call is gone and nothing is sent or
\* issued in its place.
C26_LostResponseHarmless ==
  [][/\ (DialogApprove \/ DialogReject) =>
          /\ currentWorkflow' = currentWorkflow
          /\ pendingApprovals' = pendingApprovals
          /\ Len(calls') <= Len(calls) + 1
     /\ \A i \in 1..Len(calls) :
          (Fail(i) /\ calls[i].op = "approveAction") =>
            /\ currentWorkflow' = currentWorkflow
            /\ pendingApprovals' = pendingApprovals
            /\ error' = "Failed to process approval"
            /\ calls' = RemoveAt(calls, i)
            /\ outbox' = outbox]_vars

C26_Witness ==
  /\ error = "Failed to process approval"
  /\ calls = <<>>
  /\ currentWorkflow # Null
  /\ pendingApprovals # <<>>
  /\ pendingApprovals = currentWorkflow.pending_approvals
  /\ approvalLog.answered # {}

(***************************************************************************)
(* Approval manager claims                                                 *)
(***************************************************************************)
\* C30: no approval request handed to the approval manager is lost: in
\* every state each request the manager has received and the user has not
\* answered is the approval the dialog shows, so none is dropped before the
\* user could decide on it; and a decision is submitted with the id of the
\* approval the dialog showed when the user decided.
C30_NoApprovalLost ==
  /\ [](\A id \in approvalLog.received \ approvalLog.answered :
          currentApproval # Null /\ currentApproval.id = id)
  /\ [][(DialogApprove \/ DialogReject) =>
          /\ approvalLog'.answered = approvalLog.answered \cup {currentApproval.id}
          /\ SendAccepted(Transport) =>
               outbox'[Len(outbox')].approval_id = currentApproval.id]_vars

(***************************************************************************)
(* Container claims                                                        *)
(***************************************************************************)
\* the phase a container shows (NoPhase: it holds no snapshot)
NoPhase == "none"

PhaseShown(state) == IF state = Null THEN NoPhase ELSE state.phase

\* C24: after every processed push frame that carries a workflow and after
\* every applied response of a request/response call, the phase the sidebar
\* derives its statuses from is the phase of the store's currentWorkflow.
C24_SidebarPhaseCurrent ==
  [][(\/ OnMessageWorkflow /\ StoreApplies(Head(inbox))
      \/ \E i \in 1..Len(calls) : Respond(i))
     => PhaseShown(workflowState') = PhaseShown(currentWorkflow')]_vars

\* C25: whenever the store holds a snapshot and no call is in flight,
\* pendingApprovals and workflowHistory are the snapshot's pending_approvals
\* and phase_transitions.
C25_ContainersAgree ==
  (currentWorkflow # Null /\ calls = <<>>) =>
    /\ pendingApprovals = currentWorkflow.pending_approvals
    /\ workflowHistory = currentWorkflow.phase_transitions

(***************************************************************************)
(* Ordering claims                                                         *)
(***************************************************************************)
\* C22: the mutations of the pipeline document caused by state_update
\* frames are applied in the order in which the frames arrived.
C22_FramesApplyInOrder ==
  \A i, j \in 1..Len(applied) : i < j => applied[i] < applied[j]

=============================================================================
